---- MODULE Spec2Model ----
(***************************************************************************)
(* A model of icloud-worker/app/main.py: the two request handlers          *)
(* (POST /sync, POST /sync/2fa), the process-wide pending_sessions table   *)
(* and the sync engine (perform_sync with list_existing_keys and the key   *)
(* builder).                                                               *)
(*                                                                         *)
(* Strings are sequences of one-character strings, so that the character   *)
(* filter and the f-string concatenations of the key builder are computed  *)
(* as the code computes them.  None and "" are both the empty sequence:    *)
(* every place of the code that reads such a value tests its truthiness.   *)
(* An Optional value that is not a string (limit, continuation token) is   *)
(* <<>> for None and <<v>> for v.                                          *)
(*                                                                         *)
(* Both handlers are "async def" with no await inside: the event loop runs *)
(* one handler to completion before it starts the next, so one request is  *)
(* in flight at a time.  pc is the position of that request.               *)
(***************************************************************************)
EXTENDS Integers, Sequences, FiniteSets, TLC

\* Longest photo collection (api.photos.all) considered.
MaxPhotos == 2

\* Most authorized POST /sync requests in one behaviour (each makes one
\* temporary directory with mkdtemp).
MaxLogins == 2

VARIABLES
    photos,             \* api.photos.all: the account's collection, in its native order
    has_bucket,         \* whether PHOTO_BUCKET is configured
    objects,            \* the keys of the objects stored in the bucket
    pending_sessions,   \* the process-wide table session_id -> PendingSession
    tmpdirs,            \* number of directories made by tempfile.mkdtemp
    uuids,              \* number of uuid4() calls made
    issued,             \* the session ids returned by POST /sync so far, in order
    pc,                 \* position of the request in flight
    req,                \* the request in flight
    api,                \* the PyiCloudService of the request in flight
    existing,           \* perform_sync / list_existing_keys: the key set
    continuation,       \* list_existing_keys: the continuation token
    index,              \* perform_sync: number of items the loop has taken
    imported,           \* perform_sync: counter
    skipped,            \* perform_sync: counter
    errors,             \* perform_sync: the error list
    response,           \* what the handler returned or raised
    listed,             \* the key set list_existing_keys returned to this run
    computed,           \* the key computed for each item this run has taken, in order
    fetches,            \* positions of the items fetched by this run, in order
    puts,               \* put_object calls of this run, in order: [item, key, ok]
    logins,             \* PyiCloudService constructions of this request
    validated,          \* validate_2fa_code of this request: "none", "ok", "bad"
    syncs,              \* perform_sync invocations of this request
    sessions_before,    \* pending_sessions when the request in flight arrived
    requested,          \* the token the latest list_objects_v2 request of this run carried
    ran_clean           \* whether the request before the one in flight was a sync run
                        \* that returned having taken every item with no error

vars == <<photos, has_bucket, objects, pending_sessions, tmpdirs, uuids, issued,
          pc, req, api, existing, continuation, index, imported, skipped, errors,
          response, listed, computed, fetches, puts, logins, validated, syncs,
          sessions_before, requested, ran_clean>>

----------------------------------------------------------------------------
(* Strings *)

None == <<>>

Range(s) == {s[i] : i \in DOMAIN s}

\* str.isalnum() on the characters that occur in the model.
AlnumChars == {"a", "b", "c", "f", "g", "j", "p"}

isalnum(ch) == ch \in AlnumChars

endswith(s, ch) == Len(s) > 0 /\ s[Len(s)] = ch

startswith(s, prefix) ==
    Len(s) >= Len(prefix) /\ SubSeq(s, 1, Len(prefix)) = prefix

\* uuid4().hex of the k-th call: k distinct calls give k distinct hex strings.
uuid4_hex(k) == [i \in 1..k |-> "f"]

----------------------------------------------------------------------------
(* The source collection *)

NoAttrs ==
    [id |-> None, asset_id |-> None, record_name |-> None, recordName |-> None,
     filename |-> None, original_filename |-> None, file_name |-> None,
     name |-> None]

PhotoA == [NoAttrs EXCEPT !.id = <<"a">>, !.filename = <<"b", "-", "c">>]
PhotoB == [NoAttrs EXCEPT !.id = <<"a", "-", "b">>, !.name = <<"c">>]
PhotoC == [NoAttrs EXCEPT !.filename = <<"c">>]
PhotoD == NoAttrs
PhotoE == [NoAttrs EXCEPT !.asset_id = <<"a", "/">>]

PhotoCatalog == {PhotoA, PhotoB, PhotoC, PhotoD, PhotoE}

PhotoLists == UNION {[1..n -> PhotoCatalog] : n \in 0..MaxPhotos}

----------------------------------------------------------------------------
(* Key builder *)

FirstTruthy(values) ==
    LET hits == {i \in DOMAIN values : values[i] # None}
    IN  IF hits = {} THEN None
        ELSE values[CHOOSE i \in hits : \A j \in hits : i <= j]

get_photo_identifier(photo) ==
    FirstTruthy(<<photo.id, photo.asset_id, photo.record_name, photo.recordName>>)

\* Whether get_photo_filename calls uuid4().
needs_uuid(photo) ==
    /\ FirstTruthy(<<photo.filename, photo.original_filename,
                     photo.file_name, photo.name>>) = None
    /\ get_photo_identifier(photo) = None

\* hex is what uuid4().hex returns if it is called.
get_photo_filename(photo, hex) ==
    LET value == FirstTruthy(<<photo.filename, photo.original_filename,
                               photo.file_name, photo.name>>)
        identifier == get_photo_identifier(photo)
    IN  IF value # None THEN value
        ELSE (IF identifier # None THEN identifier ELSE hex)
             \o <<".", "j", "p", "g">>

KeepChar(ch) == isalnum(ch) \/ ch \in {"-", "_"}

safe_identifier(identifier) == SelectSeq(identifier, KeepChar)

\* The value of PHOTO_PREFIX in the environment.
PHOTO_PREFIX == <<"p">>

ensure_photo_prefix ==
    IF endswith(PHOTO_PREFIX, "/") THEN PHOTO_PREFIX ELSE PHOTO_PREFIX \o <<"/">>

build_key(prefix, photo, hex) ==
    LET filename == get_photo_filename(photo, hex)
        safe == safe_identifier(get_photo_identifier(photo))
    IN  IF safe # None
        THEN prefix \o safe \o <<"-">> \o filename
        ELSE prefix \o filename

\* Keys that may be in the bucket before the first request.
SeedKeys == {build_key(ensure_photo_prefix, PhotoA, None),
             build_key(ensure_photo_prefix, PhotoC, None)}


----------------------------------------------------------------------------
(* Inputs of the two handlers and results of the collaborators *)

\* Authorization headers: one verify_token rejects (absent, malformed, bad
\* signature) and one it accepts.
AuthHeaders == {"bad", "good"}

Credentials == {[apple_id |-> "u1", app_password |-> "pw1"],
                [apple_id |-> "u2", app_password |-> "pw2"]}

\* SyncRequest.limit: Optional[int].
Limits == {None} \cup {<<n>> : n \in 0..MaxPhotos}

\* TwoFactorRequest.code, and the one code the account accepts.
Codes == {"123456", "000000"}

CorrectCode == "123456"

\* What a PyiCloudService reports after construction.
LoginResults == [requires_2fa : BOOLEAN, requires_2sa : BOOLEAN]

NoApi == [requires_2fa |-> FALSE, requires_2sa |-> FALSE]

\* A session id no POST /sync ever returned.
UnknownSessionId == <<"0">>

verify_token(authorization) == authorization = "good"

validate_2fa_code(code) == code = CorrectCode

\* The bug of testing requires_2fa alone.
requires_challenge_2fa_only(a) == a.requires_2fa

\* sync_photos line 257: the login asks for a verification code.
requires_challenge(a) == a.requires_2fa \/ a.requires_2sa

\* sync_with_2fa line 293: the supplied code is validated.
resume_validates(a) == a.requires_2fa

\* The bug of a lookup that makes up an entry for an absent id.
lookup_session_default(table, session_id) ==
    IF session_id \in DOMAIN table THEN <<table[session_id]>>
    ELSE <<[apple_id |-> "", app_password |-> "", session_dir |-> 0]>>

\* sync_with_2fa line 285: pending_sessions.get(session_id), None when absent.
lookup_session(table, session_id) ==
    IF session_id \in DOMAIN table THEN <<table[session_id]>> ELSE None

\* The bug of leaving out the pop.
pop_session_forgotten(table, session_id) == table

\* sync_with_2fa line 300: pending_sessions.pop(session_id, None).
pop_session(table, session_id) ==
    [s \in DOMAIN table \ {session_id} |-> table[s]]

\* The bug of removing the entry as soon as the code is accepted.
table_popped_before_sync(table, session_id) == pop_session(table, session_id)

\* sync_with_2fa lines 285-297: the table while perform_sync runs; nothing
\* touches it between the lookup and the pop of line 300.
table_during_sync(table, session_id) == table

\* The bug of a table that holds the latest session alone.
store_session_replacing(table, session_id, pending) ==
    [s \in {session_id} |-> pending]

\* sync_photos line 259: pending_sessions[session_id] = PendingSession(...).
store_session(table, session_id, pending) ==
    [s \in DOMAIN table \cup {session_id} |->
        IF s = session_id THEN pending ELSE table[s]]

NoRequest ==
    [kind |-> "none", authorization |-> "", limit |-> None, session_id |-> None,
     code |-> ""]

NoResponse ==
    [code |-> 0, status |-> "", detail |-> "", session_id |-> None,
     imported |-> 0, skipped |-> 0, errors |-> <<>>]

HTTPException(code, detail) ==
    [NoResponse EXCEPT !.code = code, !.status = "error", !.detail = detail]

Needs2fa(session_id) ==
    [NoResponse EXCEPT !.code = 200, !.status = "needs_2fa", !.session_id = session_id]

Ok(imp, skp, errs) ==
    [NoResponse EXCEPT !.code = 200, !.status = "ok",
                       !.imported = imp, !.skipped = skp, !.errors = errs]

\* The bug of handlers that the server runs in threads: a request starts
\* whatever the position of the one in flight.
IdleOrNot == TRUE

\* Both handlers are coroutines without an await (lines 246-276, 279-308):
\* the event loop starts a request when none is in flight.
Idle == pc \in {"idle", "responded"}

----------------------------------------------------------------------------
(* Sync engine *)

\* The bug of a limit test that is off by one.
loop_continues_past_limit(limit, i, n) == i < n /\ ~(limit # None /\ i > limit[1])

\* perform_sync line 217: the loop takes the item at this index.
loop_continues(limit, i, n) == i < n /\ ~(limit # None /\ i >= limit[1])

\* The bug of a loop that never tests the key.
key_never_known(key, keys) == FALSE

\* The bug of testing the key against the keys listed at the start alone.
key_in_listed_only(key, keys) == key \in listed

\* perform_sync line 231.
key_in_existing(key, keys) == key \in keys

\* The bug of leaving out existing.add(key).
add_uploaded_forgotten(keys, key) == keys

\* perform_sync line 238.
add_uploaded(keys, key) == keys \cup {key}

\* The bug of adding the key before the fetch and the upload are known to
\* have succeeded.
after_failure_key_added(keys, key) == keys \cup {key}

\* perform_sync lines 235-241: the key set after the fetch or the upload of an
\* item raised; existing.add (line 238) was not reached.
after_failure(keys, key) == keys

\* The bug of a loop without the try/except: the error ends the request.
AfterItemErrorUncaught == "responded"

\* perform_sync lines 235-241: where the loop goes when the fetch or the upload
\* of an item raises; the except clause keeps it in the loop.
AfterItemError == "loop"

\* The bug of catching the listing error and going on with the keys listed so far.
AfterListingErrorCaught == "loop"

\* list_existing_keys line 97, perform_sync line 208: where the run goes when
\* list_objects_v2 raises; nothing catches it, so the request ends.
AfterListingError == "responded"

\* The bug of an except clause that records nothing.
record_failure_dropped(errs, filename, exc) == errs

\* perform_sync line 241.
record_failure(errs, filename, exc) ==
    Append(errs, [filename |-> filename, exc |-> exc])

\* The bug of keeping the keys of the latest page alone.
add_page_replacing(keys, page) == page

\* list_existing_keys lines 98-101: keys.add(key) for each key of the page.
add_page(keys, page) == keys \cup page

\* The bug of a request that never carries the token.
token_never_sent(cont) == None

\* list_existing_keys lines 94-95: the request carries the token when it is truthy.
token_sent(cont) == cont

\* The store lists keys in the binary order of their characters.
CharOrder == <<"-", ".", "/", "0", "_", "a", "b", "c", "f", "g", "j", "p">>

Ord(ch) == CHOOSE i \in DOMAIN CharOrder : CharOrder[i] = ch

RECURSIVE StrLess(_, _)
StrLess(s, t) ==
    IF s = <<>> THEN t # <<>>
    ELSE IF t = <<>> THEN FALSE
    ELSE IF s[1] = t[1] THEN StrLess(Tail(s), Tail(t))
    ELSE Ord(s[1]) < Ord(t[1])

\* list_existing_keys line 93: the request asks for the keys under the prefix.
Listable == {k \in objects : startswith(k, ensure_photo_prefix)}

\* list_objects_v2: the pages the store may answer with to a request
\* carrying token (None: from the start; otherwise the last key already
\* listed).  A page is the next n keys in order, n >= 1, or no key at all
\* when none is left.
ListPages(token) ==
    LET left == {k \in Listable : token = None \/ StrLess(token, k)}
        first(n) == {k \in left : Cardinality({j \in left : StrLess(j, k)}) < n}
    IN  IF left = {} THEN {{}} ELSE {first(n) : n \in 1..Cardinality(left)}

\* The greatest key of a page that is not empty.
LastKey(page) == CHOOSE k \in page : \A j \in page : j = k \/ StrLess(j, k)

\* The state a handler starts from: the locals of the request in flight.
Fresh(r, a, nlogins, val, nsyncs, newpc, resp) ==
    /\ req' = r
    /\ api' = a
    /\ logins' = nlogins
    /\ validated' = val
    /\ syncs' = nsyncs
    /\ pc' = newpc
    /\ response' = resp
    /\ sessions_before' = pending_sessions
    /\ requested' = None
    /\ ran_clean' = (/\ pc = "responded"
                     /\ response.status = "ok"
                     /\ response.errors = <<>>
                     /\ index = Len(photos))
    /\ existing' = {}
    /\ continuation' = None
    /\ index' = 0
    /\ imported' = 0
    /\ skipped' = 0
    /\ errors' = <<>>
    /\ listed' = {}
    /\ computed' = <<>>
    /\ fetches' = <<>>
    /\ puts' = <<>>

\* perform_sync lines 205-214: get_s3_client raises when PHOTO_BUCKET is not
\* set; otherwise list_existing_keys starts with no keys and no token.
EnterSync(r, a, nlogins, val) ==
    IF has_bucket
    THEN Fresh(r, a, nlogins, val, 1, "listing", NoResponse)
    ELSE Fresh(r, a, nlogins, val, 1, "responded",
               HTTPException(500, "PHOTO_BUCKET not configured"))

\* One pass of the loop of list_existing_keys, lines 92-106.
ListPage ==
    /\ pc = "listing"
    /\ \/ \* list_objects_v2 raises
          /\ pc' = AfterListingError
          /\ response' = HTTPException(500, "list_objects_v2 failed")
          /\ UNCHANGED <<existing, continuation, listed>>
       \/ \E page \in ListPages(token_sent(continuation)) :
            LET keys == add_page(existing, page)
                IsTruncated ==
                    \E k \in Listable : \A j \in page \cup {token_sent(continuation)} :
                        StrLess(j, k)
            IN  /\ existing' = keys
                /\ IF IsTruncated
                   THEN /\ continuation' = LastKey(page)
                        /\ UNCHANGED <<pc, listed>>
                   ELSE /\ pc' = "loop"
                        /\ listed' = keys
                        /\ UNCHANGED continuation
                /\ UNCHANGED response
    /\ requested' = token_sent(continuation)
    /\ UNCHANGED <<photos, has_bucket, objects, pending_sessions, tmpdirs, uuids,
                   issued, req, api, index, imported, skipped, errors, computed,
                   fetches, puts, logins, validated, syncs, sessions_before,
                   ran_clean>>

\* One iteration of the loop of perform_sync, lines 216-241.
ProcessItem ==
    /\ pc = "loop"
    /\ loop_continues(req.limit, index, Len(photos))
    /\ LET photo == photos[index + 1]
           hex == uuid4_hex(uuids + 1)
           filename == get_photo_filename(photo, hex)
           key == build_key(ensure_photo_prefix, photo, hex)
           failed == IF AfterItemError = "loop" THEN response
                     ELSE HTTPException(500, "Internal Server Error")
       IN  /\ uuids' = IF needs_uuid(photo) THEN uuids + 1 ELSE uuids
           /\ index' = index + 1
           /\ computed' = Append(computed, key)
           /\ IF key_in_existing(key, existing)
              THEN /\ skipped' = skipped + 1
                   /\ UNCHANGED <<existing, imported, errors, fetches, puts,
                                  objects, pc, response>>
              ELSE /\ fetches' = Append(fetches, index + 1)
                   /\ \/ \* download_photo_bytes raises
                         /\ errors' = record_failure(errors, filename, "download")
                         /\ existing' = after_failure(existing, key)
                         /\ pc' = AfterItemError
                         /\ response' = failed
                         /\ UNCHANGED <<imported, skipped, puts, objects>>
                      \/ \* put_object raises
                         /\ puts' = Append(puts, [item |-> index + 1, key |-> key,
                                                  ok |-> FALSE])
                         /\ errors' = record_failure(errors, filename, "upload")
                         /\ existing' = after_failure(existing, key)
                         /\ pc' = AfterItemError
                         /\ response' = failed
                         /\ UNCHANGED <<imported, skipped, objects>>
                      \/ \* both succeed
                         /\ puts' = Append(puts, [item |-> index + 1, key |-> key,
                                                  ok |-> TRUE])
                         /\ objects' = objects \cup {key}
                         /\ existing' = add_uploaded(existing, key)
                         /\ imported' = imported + 1
                         /\ UNCHANGED <<skipped, errors, pc, response>>
    /\ UNCHANGED <<photos, has_bucket, pending_sessions, tmpdirs, issued, req,
                   api, continuation, listed, logins, validated, syncs,
                   sessions_before, requested, ran_clean>>

\* perform_sync returns and the handler that called it builds its response:
\* sync_photos lines 267-276, sync_with_2fa lines 297-308.
ReturnSync ==
    /\ pc = "loop"
    /\ ~loop_continues(req.limit, index, Len(photos))
    /\ pc' = "responded"
    /\ response' = Ok(imported, skipped, errors)
    /\ pending_sessions' =
         IF req.kind = "resume"
         THEN pop_session(pending_sessions, req.session_id)
         ELSE pending_sessions
    /\ UNCHANGED <<photos, has_bucket, objects, tmpdirs, uuids, issued, req, api,
                   existing, continuation, index, imported, skipped, errors, listed,
                   computed, fetches, puts, logins, validated, syncs,
                   sessions_before, requested, ran_clean>>

----------------------------------------------------------------------------
(* Handlers *)

\* POST /sync, lines 246-267.
sync_photos(authorization, cred, limit, a) ==
    LET r == [NoRequest EXCEPT !.kind = "begin", !.authorization = authorization,
                               !.limit = limit]
    IN
    /\ Idle
    /\ IF ~verify_token(authorization)
       THEN /\ Fresh(r, NoApi, 0, "none", 0, "responded",
                     HTTPException(401, "Missing or invalid token"))
            /\ UNCHANGED <<pending_sessions, tmpdirs, uuids, issued>>
       ELSE /\ tmpdirs < MaxLogins
            /\ tmpdirs' = tmpdirs + 1
            /\ IF requires_challenge(a)
               THEN LET session_id == uuid4_hex(uuids + 1)
                    IN  /\ uuids' = uuids + 1
                        /\ pending_sessions' =
                             store_session(pending_sessions, session_id,
                                           [apple_id |-> cred.apple_id,
                                            app_password |-> cred.app_password,
                                            session_dir |-> tmpdirs + 1])
                        /\ issued' = Append(issued, session_id)
                        /\ Fresh(r, a, 1, "none", 0, "responded", Needs2fa(session_id))
               ELSE /\ EnterSync(r, a, 1, "none")
                    /\ UNCHANGED <<pending_sessions, uuids, issued>>
    /\ UNCHANGED <<photos, has_bucket, objects>>

\* POST /sync/2fa, lines 279-297.
sync_with_2fa(authorization, session_id, code, a) ==
    LET r == [NoRequest EXCEPT !.kind = "resume", !.authorization = authorization,
                               !.session_id = session_id, !.code = code]
        enters_sync == /\ verify_token(authorization)
                       /\ lookup_session(pending_sessions, session_id) # None
                       /\ resume_validates(a) => validate_2fa_code(code)
    IN
    /\ Idle
    /\ IF ~verify_token(authorization)
       THEN Fresh(r, NoApi, 0, "none", 0, "responded",
                  HTTPException(401, "Missing or invalid token"))
       ELSE IF lookup_session(pending_sessions, session_id) = None
       THEN Fresh(r, NoApi, 0, "none", 0, "responded",
                  HTTPException(404, "Session not found"))
       ELSE IF resume_validates(a)
       THEN IF validate_2fa_code(code)
            THEN EnterSync(r, a, 1, "ok")
            ELSE Fresh(r, a, 1, "bad", 0, "responded",
                       HTTPException(401, "Invalid 2FA code"))
       ELSE EnterSync(r, a, 1, "none")
    /\ pending_sessions' = IF enters_sync
                           THEN table_during_sync(pending_sessions, session_id)
                           ELSE pending_sessions
    /\ UNCHANGED <<photos, has_bucket, objects, tmpdirs, uuids, issued>>

----------------------------------------------------------------------------
(* Specifications *)

InitWith(collections, seeds) ==
    /\ photos \in collections
    /\ has_bucket \in BOOLEAN
    /\ objects \in SUBSET seeds
    /\ pending_sessions = <<>>
    /\ tmpdirs = 0
    /\ uuids = 0
    /\ issued = <<>>
    /\ pc = "idle"
    /\ req = NoRequest
    /\ api = NoApi
    /\ existing = {}
    /\ continuation = None
    /\ index = 0
    /\ imported = 0
    /\ skipped = 0
    /\ errors = <<>>
    /\ response = NoResponse
    /\ listed = {}
    /\ computed = <<>>
    /\ fetches = <<>>
    /\ puts = <<>>
    /\ logins = 0
    /\ validated = "none"
    /\ syncs = 0
    /\ sessions_before = <<>>
    /\ requested = None
    /\ ran_clean = FALSE

BeginLogin ==
    \E authorization \in AuthHeaders, cred \in Credentials, limit \in Limits,
       a \in LoginResults :
        sync_photos(authorization, cred, limit, a)

ResumeLogin ==
    \E authorization \in AuthHeaders,
       session_id \in Range(issued) \cup {UnknownSessionId},
       code \in Codes, a \in LoginResults :
        sync_with_2fa(authorization, session_id, code, a)

\* The two handlers and the sync engine, over three collections (of no, one
\* and two photos) and a bucket that starts with at most one object.
Init == InitWith({<<>>, <<PhotoC>>, <<PhotoA, PhotoC>>},
                 {build_key(ensure_photo_prefix, PhotoC, None)})

Next == BeginLogin \/ ResumeLogin \/ ListPage \/ ProcessItem \/ ReturnSync

Spec == Init /\ [][Next]_vars

\* The sync engine over every collection and starting bucket, entered by
\* authorized POST /sync requests whose login asks for no code.
SyncInit == InitWith(PhotoLists, SeedKeys)

SyncRequest ==
    \E limit \in Limits :
        sync_photos("good", CHOOSE cred \in Credentials : TRUE, limit, NoApi)

SyncNext == SyncRequest \/ ListPage \/ ProcessItem \/ ReturnSync

SyncSpec == SyncInit /\ [][SyncNext]_vars

\* Keys that may be in the bucket before the first request of ListSpec: three
\* under the prefix and one outside it.
ListSeedKeys == {build_key(ensure_photo_prefix, PhotoA, None),
                 build_key(ensure_photo_prefix, PhotoC, None),
                 build_key(ensure_photo_prefix, PhotoE, None),
                 <<"a", "/", "c">>}

\* The lister over every starting bucket of up to four objects, entered as in
\* SyncSpec.  The handler in flight runs on until it answers, so a listing
\* that can take a step takes one.
ListInit == InitWith({<<>>, <<PhotoC>>}, ListSeedKeys)

ListSpec == ListInit /\ [][SyncNext]_vars /\ WF_vars(ListPage)

----------------------------------------------------------------------------
(* Properties of the sync engine (under SyncSpec) *)

Min(a, b) == IF a <= b THEN a ELSE b

\* The number of items a run that returns has taken.
ItemsDue == IF req.limit = None THEN Len(photos) ELSE Min(req.limit[1], Len(photos))

\* C1: within one run no put is issued for a key that was in the key set
\* listed at the start of the run, and no key is put successfully twice.
C1_NoReupload ==
    /\ \A i \in DOMAIN puts : puts[i].key \notin listed
    /\ \A i, j \in DOMAIN puts :
         (i # j /\ puts[i].ok /\ puts[j].ok) => puts[i].key # puts[j].key

\* Two items compute the same key, which was not listed: the first is
\* uploaded, the second is not.
C1_Witness ==
    /\ pc = "responded"
    /\ response.status = "ok"
    /\ index = 2
    /\ computed[1] = computed[2]
    /\ computed[1] \notin listed
    /\ Len(puts) = 1
    /\ puts[1].ok

\* The puts of this run that succeeded.
OkPuts == {i \in DOMAIN puts : puts[i].ok}

\* A step of the loop in which the fetch or the upload of the item fails.
ItemFails ==
    /\ pc = "loop"
    /\ Len(fetches') = Len(fetches) + 1
    /\ ~(Len(puts') = Len(puts) + 1 /\ puts'[Len(puts')].ok)

\* C2: a fetch or upload failure appends exactly one message, leaves imported
\* and skipped as they were and keeps the run in its loop; a run in which an
\* item failed still takes every item within the limit and returns its outcome.
C2_FailureDoesNotAbort ==
    [][/\ ItemFails =>
            /\ Len(errors') = Len(errors) + 1
            /\ SubSeq(errors', 1, Len(errors)) = errors
            /\ imported' = imported
            /\ skipped' = skipped
            /\ pc' = "loop"
            /\ response' = response
       /\ (pc' = "responded" /\ Cardinality(OkPuts') < Len(fetches')) =>
            /\ response'.status = "ok"
            /\ response'.errors = errors'
            /\ index' = ItemsDue']_vars

\* The first item failed, the second was then fetched and uploaded, and the
\* run returned.
C2_Witness ==
    /\ pc = "responded"
    /\ response.status = "ok"
    /\ fetches = <<1, 2>>
    /\ Len(errors) = 1
    /\ Len(puts) = 1
    /\ puts[1].item = 2
    /\ puts[1].ok

\* C3: while the keys are being listed no item has been taken, and a run whose
\* listing failed ends with that error without having taken, fetched or
\* uploaded any item.
C3_ListingFailsFast ==
    /\ pc = "listing" => index = 0 /\ fetches = <<>> /\ puts = <<>>
    /\ response.detail = "list_objects_v2 failed" =>
         /\ pc = "responded"
         /\ response.status = "error"
         /\ index = 0
         /\ fetches = <<>>
         /\ puts = <<>>

\* The listing failed on a later page, with items in the collection.
C3_Witness ==
    /\ pc = "responded"
    /\ response.detail = "list_objects_v2 failed"
    /\ continuation # None
    /\ Len(photos) > 0

\* The items of this run that were fetched and uploaded.
Uploaded == {i \in 1..index : \E p \in OkPuts : puts[p].item = i}

\* The items of this run whose key was in the key set listed at its start.
KeyWasListed == {i \in 1..index : computed[i] \in listed}

\* The items of this run whose key was listed at its start or uploaded by an
\* earlier item of the run.
KeyWasKnown ==
    {i \in 1..index :
        \/ computed[i] \in listed
        \/ \E j \in Uploaded : j < i /\ computed[j] = computed[i]}

\* C9 as stated: on return skipped counts the items whose key was in the key
\* set listed at the start, and imported the other items that were fetched
\* and uploaded.
C9_CountsAgainstListing ==
    (pc = "responded" /\ response.status = "ok") =>
        /\ response.skipped = Cardinality(KeyWasListed)
        /\ response.imported = Cardinality(Uploaded \ KeyWasListed)

\* C9 amended: on return skipped counts the items whose key was listed at the
\* start or uploaded earlier in the same run, and imported the other items
\* that were fetched and uploaded.
C9_CountsAgainstBaseline ==
    (pc = "responded" /\ response.status = "ok") =>
        /\ response.skipped = Cardinality(KeyWasKnown)
        /\ response.imported = Cardinality(Uploaded \ KeyWasKnown)
        /\ Uploaded \subseteq Range(fetches)

\* A run returned having skipped an item whose key was not listed at the start.
C9_Witness ==
    /\ pc = "responded"
    /\ response.status = "ok"
    /\ response.skipped = 1
    /\ response.imported = 1
    /\ KeyWasListed = {}

\* C10: imported + skipped + len(errors) is the number of items taken so far,
\* which never exceeds the size of the collection, and so for the outcome
\* returned.
C10_OneOutcomePerItem ==
    /\ imported + skipped + Len(errors) = index
    /\ index <= Len(photos)
    /\ (pc = "responded" /\ response.status = "ok") =>
         response.imported + response.skipped + Len(response.errors) = index

\* A run returned with one item skipped and one failed.
C10_Witness ==
    /\ pc = "responded"
    /\ response.status = "ok"
    /\ response.skipped = 1
    /\ Len(response.errors) = 1

----------------------------------------------------------------------------
(* Properties of the two handlers (under Spec) *)

\* The login of the request in flight reports a pending verification requirement.
ChallengePending == api.requires_2fa \/ api.requires_2sa

\* C4: a POST /sync whose login reports a pending verification requirement
\* runs no sync, adds exactly one entry to the table and answers needs_2fa with
\* a session id that no earlier POST /sync returned and that was not a key of
\* the table.
C4_ChallengeParksLogin ==
    (req.kind = "begin" /\ logins = 1 /\ ChallengePending) =>
        /\ pc = "responded"
        /\ syncs = 0
        /\ response.status = "needs_2fa"
        /\ response.session_id \notin DOMAIN sessions_before
        /\ issued # <<>>
        /\ issued[Len(issued)] = response.session_id
        /\ \A i \in 1..(Len(issued) - 1) : issued[i] # response.session_id
        /\ DOMAIN pending_sessions = DOMAIN sessions_before \cup {response.session_id}
        /\ \A s \in DOMAIN sessions_before : pending_sessions[s] = sessions_before[s]

\* The second POST /sync that met a challenge has answered.
C4_Witness ==
    /\ pc = "responded"
    /\ req.kind = "begin"
    /\ response.status = "needs_2fa"
    /\ Len(issued) = 2

\* C5 as stated, for a login that still reports a pending requirement: an
\* invalid code for an existing session is answered 401, runs no sync and
\* leaves the table as it was.
C5_InvalidCodeRejected ==
    (req.kind = "resume" /\ logins = 1 /\ ChallengePending
        /\ ~validate_2fa_code(req.code)) =>
        /\ pc = "responded"
        /\ response.code = 401
        /\ syncs = 0
        /\ pending_sessions = sessions_before

\* C6 as stated: a correct code for an existing session runs exactly one sync
\* and, once the request has answered, the entry is gone.
C6_CorrectCodeRemovesSession ==
    (pc = "responded" /\ req.kind = "resume" /\ logins = 1
        /\ validate_2fa_code(req.code) /\ validated = "ok") =>
        /\ syncs = 1
        /\ req.session_id \notin DOMAIN pending_sessions

\* The state part of C6 amended.
C6_Outcome ==
    /\ (req.kind = "resume" /\ logins = 1 /\ validate_2fa_code(req.code)) =>
         /\ syncs = 1
         /\ IF pc = "responded" /\ response.status = "ok"
            THEN /\ DOMAIN pending_sessions = DOMAIN sessions_before \ {req.session_id}
                 /\ \A s \in DOMAIN pending_sessions :
                      pending_sessions[s] = sessions_before[s]
            ELSE pending_sessions = sessions_before
    /\ (req.kind = "resume" /\ req.authorization = "good"
          /\ req.session_id \notin DOMAIN sessions_before) =>
         /\ response.code = 404
         /\ syncs = 0

\* C6 amended: a correct code for an existing session runs exactly one sync;
\* when that run returns, the entry is removed (and no other), it never comes
\* back, and a later request for that id is answered 404; when the run fails
\* fast the entry stays.
C6_ReturnedSyncRemovesSession ==
    [][/\ C6_Outcome'
       /\ \A s \in Range(issued) :
            s \notin DOMAIN pending_sessions => s \notin DOMAIN pending_sessions']_vars

\* A request for a session id that was issued and has since been removed is
\* answered 404.
C6_Witness ==
    /\ pc = "responded"
    /\ req.kind = "resume"
    /\ req.session_id \in Range(issued)
    /\ response.code = 404

\* C7 as stated: when the login of a resumed request reports a pending
\* requirement, a sync runs only after the code was validated.
C7_SyncOnlyAfterValidation ==
    (req.kind = "resume" /\ logins = 1 /\ ChallengePending /\ syncs > 0) =>
        validated = "ok"

\* C8: a resumed request for a session id that is not in the table is answered
\* 404, makes no login, runs no sync and leaves the table as it was.
C8_UnknownSessionRejected ==
    (req.kind = "resume" /\ req.authorization = "good"
        /\ req.session_id \notin DOMAIN sessions_before) =>
        /\ pc = "responded"
        /\ response.code = 404
        /\ response.detail = "Session not found"
        /\ logins = 0
        /\ syncs = 0
        /\ pending_sessions = sessions_before

\* An id that was never issued is rejected while another session is pending.
C8_Witness ==
    /\ pc = "responded"
    /\ req.kind = "resume"
    /\ req.session_id = UnknownSessionId
    /\ response.code = 404
    /\ DOMAIN pending_sessions # {}

----------------------------------------------------------------------------
(* The limit (under Spec) *)

\* The keys the key builder may give the item at position i of the collection.
KeysOfItem(i) ==
    IF needs_uuid(photos[i])
    THEN {build_key(ensure_photo_prefix, photos[i], uuid4_hex(k)) : k \in 1..uuids}
    ELSE {build_key(ensure_photo_prefix, photos[i], None)}

\* C11: a run that returns has taken the first min(n, m) items of the
\* collection, in order, when POST /sync carried the limit n, all m items
\* when it carried none, and all m items when POST /sync/2fa started it; each
\* of these items was skipped, failed or uploaded.
C11_LimitBoundsTheRun ==
    (pc = "responded" /\ response.status = "ok") =>
        /\ req.kind = "begin" /\ req.limit # None =>
             index = Min(req.limit[1], Len(photos))
        /\ req.kind = "begin" /\ req.limit = None => index = Len(photos)
        /\ req.kind = "resume" => index = Len(photos)
        /\ Len(computed) = index
        /\ \A i \in 1..index : computed[i] \in KeysOfItem(i)
        /\ \A i \in 1..Len(fetches) : fetches[i] \in 1..index
        /\ \A i, j \in 1..Len(fetches) : i < j => fetches[i] < fetches[j]
        /\ response.imported + response.skipped + Len(response.errors) = index

\* A POST /sync with limit 1 over two items returned having taken the first
\* one, which failed.
C11_Witness ==
    /\ pc = "responded"
    /\ response.status = "ok"
    /\ req.kind = "begin"
    /\ req.limit = <<1>>
    /\ Len(photos) = 2
    /\ index = 1
    /\ fetches = <<1>>
    /\ Len(response.errors) = 1

----------------------------------------------------------------------------
(* Two runs in a row (under SyncSpec) *)

\* C12 as stated: a run that follows a run over the same collection and
\* bucket, which returned having taken every item with no error, imports
\* nothing.
C12_SecondRunImportsNothing ==
    (ran_clean /\ pc = "responded" /\ response.status = "ok") =>
        response.imported = 0

----------------------------------------------------------------------------
(* The lister (under ListSpec) *)

\* C13: when list_existing_keys returns, the key set is exactly the set of
\* the keys in the bucket under the prefix, however the store cut them into
\* pages; for a bucket with no key under the prefix it is the empty set.
C13_ListerReturnsAllKeys ==
    (pc = "loop" /\ index = 0) =>
        /\ listed = Listable
        /\ existing = listed
        /\ Listable = {} => listed = {} /\ requested = None

\* Three keys under the prefix, and one outside it, were listed in more than
\* one page.
C13_Witness ==
    /\ pc = "loop"
    /\ index = 0
    /\ Cardinality(listed) = 3
    /\ Cardinality(objects) = 4
    /\ requested # None

----------------------------------------------------------------------------
(* The key builder (under SyncSpec) *)

\* C14 as stated: two items taken by a run that both have an identifier, and
\* whose identifiers differ, were given different keys.
C14_DistinctIdentifiersDistinctKeys ==
    \A i, j \in 1..index :
        (/\ get_photo_identifier(photos[i]) # None
         /\ get_photo_identifier(photos[j]) # None
         /\ get_photo_identifier(photos[i]) # get_photo_identifier(photos[j])) =>
            computed[i] # computed[j]

----------------------------------------------------------------------------
(* Skipping (under SyncSpec) *)

\* C15: when the loop takes an item whose key is in the key set at that
\* moment, it adds one to skipped and neither fetches nor uploads: the
\* fetches, the puts, the bucket, the key set, imported and the errors stay
\* as they were.
C15_KnownKeyIsSkipped ==
    [][(pc = "loop" /\ index' = index + 1 /\ computed'[index'] \in existing) =>
            /\ skipped' = skipped + 1
            /\ fetches' = fetches
            /\ puts' = puts
            /\ objects' = objects
            /\ existing' = existing
            /\ imported' = imported
            /\ errors' = errors]_vars

\* The second item was skipped for a key that was not listed at the start:
\* the first item of the run had uploaded it.
C15_Witness ==
    /\ pc = "loop"
    /\ index = 2
    /\ skipped = 1
    /\ fetches = <<1>>
    /\ computed[2] \in existing \ listed

----------------------------------------------------------------------------
(* The session table (under Spec) *)

\* The table after the step holds the entries of the table before it but s.
SameButFor(s) ==
    \A t \in (DOMAIN pending_sessions \cup DOMAIN pending_sessions') \ {s} :
        /\ t \in DOMAIN pending_sessions
        /\ t \in DOMAIN pending_sessions'
        /\ pending_sessions'[t] = pending_sessions[t]

\* A POST /sync that meets a challenge answers.
ChallengeAnswered == Idle /\ req'.kind = "begin" /\ response'.status = "needs_2fa"

\* The sync run of a POST /sync/2fa returns.
ResumeCompleted ==
    pc = "loop" /\ pc' = "responded" /\ req.kind = "resume" /\ response'.status = "ok"

----------------------------------------------------------------------------
(* Requests for one session (under Spec) *)

\* The request in flight has not answered yet.
InFlight == pc \in {"listing", "loop"}

\* A POST /sync/2fa for the session of the request in flight passes the lookup.
ResumeSameSession ==
    \E code \in Codes, a \in LoginResults :
        /\ sync_with_2fa("good", req.session_id, code, a)
        /\ response'.code # 404

----------------------------------------------------------------------------
(* Removal of the session (under Spec) *)

\* POST /sync/2fa has entered perform_sync.
ResumeEnteredSync ==
    req.kind = "resume" /\ req.authorization = "good" /\ logins = 1 /\ syncs = 1

\* C18: from the moment POST /sync/2fa enters perform_sync until the run
\* returns the table is as the request found it, its own entry included; when
\* the run fails fast (PHOTO_BUCKET missing, listing error) the request ends
\* with that error and the entry is still in the table, so that a later
\* POST /sync/2fa for the same id passes the lookup.
C18_SessionKeptUntilSyncReturns ==
    /\ (ResumeEnteredSync /\ ~(pc = "responded" /\ response.status = "ok")) =>
         /\ pending_sessions = sessions_before
         /\ req.session_id \in DOMAIN pending_sessions
    /\ (ResumeEnteredSync /\ pc = "responded" /\ response.status = "error") =>
         /\ response.code = 500
         /\ index = 0
         /\ ENABLED ResumeSameSession

\* A POST /sync/2fa with the correct code ended in a listing error.
C18_Witness ==
    /\ pc = "responded"
    /\ req.kind = "resume"
    /\ validated = "ok"
    /\ response.detail = "list_objects_v2 failed"
    /\ req.session_id \in DOMAIN pending_sessions

----------------------------------------------------------------------------
(* The key set after a failure (under SyncSpec) *)

\* The keys this run has uploaded.
UploadedKeys == {puts[p].key : p \in OkPuts}

\* C19: once the keys are listed, the key set is the keys listed plus the
\* keys uploaded by this run, so the key of an item whose fetch or upload
\* failed is not in it; an item whose key was neither listed nor uploaded by
\* an earlier item is fetched in its turn, whether or not an earlier item with
\* the same key failed.
C19_KeyAddedOnlyAfterUpload ==
    (pc = "loop" \/ (pc = "responded" /\ response.status = "ok")) =>
        /\ existing = listed \cup UploadedKeys
        /\ \A i \in 1..index :
             (computed[i] \notin listed
                /\ ~\E p \in OkPuts : puts[p].item < i /\ puts[p].key = computed[i])
             => i \in Range(fetches)

\* Two items with the same key: the fetch or upload of the first failed, the
\* second was then fetched and uploaded.
C19_Witness ==
    /\ pc = "loop"
    /\ index = 2
    /\ computed[1] = computed[2]
    /\ fetches = <<1, 2>>
    /\ Len(errors) = 1
    /\ UploadedKeys = {computed[2]}
    /\ \E p \in OkPuts : puts[p].item = 2

----------------------------------------------------------------------------
(* Paging (under ListSpec) *)

\* C20: every list request carries the token the answer before it returned
\* (none for the first); an answer that leaves keys unlisted is followed by
\* another request, whose token is beyond the token of the request before
\* it, so no page is asked for twice; the first answer that leaves no key
\* unlisted ends the listing, and no request is made after it; and a listing
\* under way comes to an end.
C20_ListerFollowsCursor ==
    /\ [][/\ pc = "listing" =>
               /\ requested' = continuation
               /\ continuation # None => StrLess(requested, requested')
               /\ pc' = "listing" =>
                    /\ Listable \ existing' # {}
                    /\ continuation' # None
                    /\ StrLess(continuation, continuation')
               /\ pc' = "loop" =>
                    /\ Listable \subseteq existing'
                    /\ listed' = existing'
          /\ pc = "loop" => requested' = requested]_vars
    /\ (pc = "listing") ~> (pc # "listing")

\* The second answer left keys unlisted: a third request is due, with the
\* token of the second answer.
C20_Witness ==
    /\ pc = "listing"
    /\ requested # None
    /\ continuation # None
    /\ requested # continuation

====
